---- MODULE Spec2Model ----
(***************************************************************************)
(* Model of innovation_country_viz.py, a Streamlit script.  Every user     *)
(* interaction re-executes the whole script top to bottom: it reads the    *)
(* four tables through a TTL cache, reads the sidebar widgets, resolves    *)
(* the column names to plot, builds two scatterplots and two treemaps.     *)
(* A run goes in steps: it starts, runs lines 82-85 up to the cache        *)
(* lookup, on a miss waits for the bucket inside read_data() while time    *)
(* passes, and then executes lines 93-464.  An uncaught exception ends the *)
(* run at the line that raised, and a rerun request stops it at the st.*   *)
(* call that notices the request; what was assigned before stays assigned. *)
(***************************************************************************)
EXTENDS Integers, Sequences, FiniteSets, TLC

VARIABLES clock, cache, remote, sel, run, pc, sidebar

vars == <<clock, cache, remote, sel, run, pc, sidebar>>

(***************************************************************************)
(* Bounds of the model.                                                    *)
(***************************************************************************)
NumDatasets == 2
NumRows == 4
TickStep == 600
MaxClock == 600

(***************************************************************************)
(* Program constants.                                                      *)
(***************************************************************************)
ttl == 600

\* Python's None, and the value of a name the run never assigned.
None == "None"
Unset == "<unset>"

(***************************************************************************)
(* Sidebar widgets: the option lists of the radio buttons.                 *)
(***************************************************************************)
OaMetricOptions == {"works", "citations"}
OaCitationConstraintOptions == {"none", "at least 5"}
AggOptions == {"per capita", "total", "sophistication (expy)"}
TransformationOptions == {"none", "rca"}
OaColorOptions == {"broad concept", "concept sophistication (prody)"}
PatColorOptions == {"patent class", "subclass sophistication (prody)"}

\* Values no widget of this script offers, fed to the resolver to exercise
\* its else-branches.  "market share" is a transformation of the
\* specification (4.2, step 3) that the radios at lines 128-136 and 161-166
\* do not list.
ForeignMetric == "downloads"
ForeignConstraint == "at least 10"
ForeignAgg == "median"
ForeignTransformation == "market share"
ForeignColor == "region"

(***************************************************************************)
(* Fixed color ranges for prody.  The source's floats are kept exactly,    *)
(* scaled by 100.  None is the empty tuple.                                *)
(***************************************************************************)
NoRange == <<>>

patents_prody_color_range ==
    [k \in {"patent_count_prody_count"} |-> <<2041218, 4635550>>]

publications_prody_color_range ==
    [k \in {"works_prody_count", "citations_prody_count",
            "works_cited_prody_count", "citations_cited_prody_count"} |->
        CASE k = "works_prody_count" -> <<1802053, 3557204>>
          [] k = "citations_prody_count" -> <<2048144, 3834445>>
          [] k = "works_cited_prody_count" -> <<1880398, 3549267>>
          [] k = "citations_cited_prody_count" -> <<2000289, 3810341>>]

(***************************************************************************)
(* The remote tables.  A table is a record of its column names and its     *)
(* rows; a row is a function from column name to cell.  The bucket holds   *)
(* one of NumDatasets datasets; numeric cells cycle through Values.        *)
(***************************************************************************)
Values == <<5, 0, -3, 10>>

Cell(i, col, k) == Values[((i + (Len(col) \div 2) + k) % 4) + 1]

Countries == <<[country_name |-> "Brazil", country_code |-> "BRA"],
               [country_name |-> "Aruba", country_code |-> "ABW"]>>

WorksBases == {"works", "citations", "works_cited", "citations_cited"}

WorksNumericColumns ==
    UNION {{b, b \o "_rca", b \o "_prody_count"} : b \in WorksBases}

WorksColumns ==
    {"country_code", "broad_concept_name", "concept_name"} \cup WorksNumericColumns

PatentsNumericColumns ==
    {"patent_count", "patent_count_rca", "patent_count_prody_count"}

PatentsColumns ==
    {"country_code", "section_name", "subclass_name", "subclass_code"}
        \cup PatentsNumericColumns

TotalsNumericColumns ==
    {"gdppc", "pop"} \cup
    UNION {{b, b \o "_pc", b \o "_expy_count"} : b \in WorksBases \cup {"patent_count"}}

TotalsColumns ==
    {"country_code", "country_name", "region"} \cup TotalsNumericColumns

Digit(i) == CASE i = 0 -> "0" [] i = 1 -> "1" [] i = 2 -> "2" [] i = 3 -> "3"
              [] i = 4 -> "4" [] i = 5 -> "5" [] i = 6 -> "6" [] i = 7 -> "7"
              [] i = 8 -> "8" [] OTHER -> "9"

\* Dataset k: the country of row i of the works and of the patents table.
WorksCountry(i, k) ==
    IF k % 3 = 1 THEN "BRA" ELSE IF (i + k) % 2 = 0 THEN "ABW" ELSE "BRA"

PatentsCountry(i, k) ==
    IF k % 3 = 0 THEN "BRA" ELSE IF i % 2 = 0 THEN "ABW" ELSE "BRA"

WorksRow(i, k) ==
    [c \in WorksColumns |->
        CASE c = "country_code" -> WorksCountry(i, k)
          [] c = "broad_concept_name" -> "field" \o Digit(i % 2)
          [] c = "concept_name" -> "concept" \o Digit(i)
          [] OTHER -> Cell(i, c, k)]

PatentsRow(i, k) ==
    [c \in PatentsColumns |->
        CASE c = "country_code" -> PatentsCountry(i, k)
          [] c = "section_name" -> "section" \o Digit(i % 2)
          [] c = "subclass_name" -> "subclass" \o Digit(i)
          [] c = "subclass_code" -> "S" \o Digit(i)
          [] OTHER -> Cell(i, c, k)]

TotalsRow(i, k) ==
    [c \in TotalsColumns |->
        CASE c = "country_code" -> Countries[i].country_code
          [] c = "country_name" -> Countries[i].country_name
          [] c = "region" -> "region" \o Digit(i)
          [] OTHER -> Cell(i, c, k)]

\* Every second dataset has no totals row for the last country.
TotalsRows(k) ==
    IF k % 2 = 1 THEN [i \in 1..Len(Countries) |-> TotalsRow(i, k)]
    ELSE [i \in 1..(Len(Countries) - 1) |-> TotalsRow(i, k)]

Table(columns, rows) == [columns |-> columns, rows |-> rows]

EmptyTable == Table({}, <<>>)

Dataset(k) ==
    [works_all |-> Table(WorksColumns, [i \in 1..NumRows |-> WorksRow(i, k)]),
     patents |-> Table(PatentsColumns, [i \in 1..NumRows |-> PatentsRow(i, k)]),
     country_codes |-> Table({"country_name", "country_code"}, Countries),
     country_totals |-> Table(TotalsColumns, TotalsRows(k))]

\* The bucket holds dataset number `remote`.
Datasets == 1..NumDatasets

\* The bucket contents, written out once.
RECURSIVE DatasetsUpTo(_)
DatasetsUpTo(n) == IF n = 0 THEN <<>> ELSE Append(DatasetsUpTo(n - 1), Dataset(n))

Bucket == DatasetsUpTo(NumDatasets)

NoData == [works_all |-> EmptyTable, patents |-> EmptyTable,
           country_codes |-> EmptyTable, country_totals |-> EmptyTable]

(***************************************************************************)
(* pandas: boolean-mask row selection, column assignment.                  *)
(***************************************************************************)
\* df[df.col == value]: a new table of the matching rows, in order.
FilterEq(df, col, value) ==
    Table(df.columns, SelectSeq(df.rows, LAMBDA row : row[col] = value))

\* df[df[col] > 0]
FilterPositive(df, col) ==
    Table(df.columns, SelectSeq(df.rows, LAMBDA row : row[col] > 0))

\* df[col] = value: sets the column on every row of df itself.
AssignColumn(df, col, value) ==
    Table(df.columns \cup {col},
          [i \in 1..Len(df.rows) |->
              [c \in df.columns \cup {col} |->
                  IF c = col THEN value ELSE df.rows[i][c]]])

\* df.loc[df[key] == match, col] = value: sets the column on the matching rows.
AssignWhere(df, key, match, col, value) ==
    Table(df.columns,
          [i \in 1..Len(df.rows) |->
              IF df.rows[i][key] = match
              THEN [df.rows[i] EXCEPT ![col] = value]
              ELSE df.rows[i]])

CodesOf(rows) == {rows[i]["country_code"] : i \in 1..Len(rows)}

(***************************************************************************)
(* plotly express: a chart is its declarative specification.  A column     *)
(* argument that names no column of the data frame raises ValueError.      *)
(***************************************************************************)
NoChart == [built |-> FALSE]

ScatterChart(df, y, log_y) ==
    [built |-> TRUE, kind |-> "scatter", data_frame |-> df.rows,
     x |-> "gdppc", y |-> y, color |-> "region", size |-> "pop",
     log_x |-> TRUE, log_y |-> log_y, hover_name |-> "country_name",
     hover_data |-> <<"gdppc", y>>, text |-> "selected_country"]

ScatterColumnsOk(df, y) ==
    {"gdppc", y, "region", "pop", "country_name", "selected_country"}
        \subseteq df.columns

TreemapChart(df, path, values, hover_name, color, scale, range_color) ==
    [built |-> TRUE, kind |-> "treemap", data_frame |-> df.rows,
     path |-> path, values |-> values, hover_name |-> hover_name,
     color |-> color, color_continuous_scale |-> scale,
     range_color |-> range_color]

TreemapColumnsOk(df, path, values, hover, color) ==
    /\ {path[i] : i \in 1..Len(path)} \cup {values} \cup hover \subseteq df.columns
    /\ color = None \/ color \in df.columns

(***************************************************************************)
(* The script.  r is the run so far: status "running" until a line raises  *)
(* (then the exception's name, and the line) or the script ends ("ok").    *)
(***************************************************************************)
Raise(r, exception, line) == [r EXCEPT !.status = exception, !.line = line]

\* A line runs only if no earlier line raised.
Running(r) == r.status = "running"

\* The st.* calls of the script, by line; at each a pending rerun request
\* is seen and stops the run.
YieldPoints ==
    {16, 66, 67,
     93, 105, 108, 113, 120, 128, 139, 150, 153, 161, 169,
     287, 289, 292, 295, 296,
     317, 319, 320, 383,
     389, 391, 451,
     455}

\* The run as it is left when the st.* call at `line` sees the request.
Stopped(r, line) ==
    IF Running(r) THEN Raise(r, "RerunException", line) ELSE r

NewRun(data) ==
    [status |-> "running", line |-> 0,
     works_all |-> data.works_all, patents |-> data.patents,
     country_codes |-> data.country_codes, country_totals |-> data.country_totals,
     selected_country |-> Unset,
     country_works_count |-> EmptyTable, country_patents_count |-> EmptyTable,
     scatter_col_oa |-> Unset, log_oa |-> FALSE,
     scatter_col_pat |-> Unset, log_pat |-> FALSE,
     scatter_oa |-> NoChart, scatter_pat |-> NoChart,
     plot_col_oa_constraint |-> Unset, plot_col_oa |-> Unset, color_col_oa |-> Unset,
     fig_oa_range_color |-> NoRange, fig_oa |-> NoChart,
     plot_col_pat |-> Unset, color_col_pat |-> Unset,
     fig_pat_range_color |-> NoRange, fig_pat |-> NoChart,
     displayed |-> {}]

\* Lines 93-99: the code of the country picked in the selectbox.
CountryOptions(country_codes) ==
    {country_codes.rows[i]["country_name"] : i \in 1..Len(country_codes.rows)}

\* Line 95: the options argument, evaluated before the selectbox call.
ReadOptions(r) ==
    IF ~Running(r) THEN r ELSE
    IF "country_name" \notin r.country_codes.columns
    THEN Raise(r, "AttributeError", 95)
    ELSE r

SelectedCountry(r, s) ==
    IF ~Running(r) THEN r ELSE
    IF "country_code" \notin r.country_codes.columns
    THEN Raise(r, "AttributeError", 99)
    ELSE
    LET hits == FilterEq(r.country_codes, "country_name", s.selected_country_name).rows
    IN  IF hits = <<>> THEN Raise(r, "IndexError", 99)
        ELSE [r EXCEPT !.selected_country = hits[1]["country_code"]]

\* Lines 190-192: filter to selected country.
CountryFilter(df, selected_country) == FilterEq(df, "country_code", selected_country)

FilterToCountry(r) ==
    IF ~Running(r) THEN r ELSE
    IF "country_code" \notin r.works_all.columns
    THEN Raise(r, "AttributeError", 191)
    ELSE IF "country_code" \notin r.patents.columns
    THEN Raise([r EXCEPT !.country_works_count =
                   CountryFilter(r.works_all, r.selected_country)],
               "AttributeError", 192)
    ELSE
    [r EXCEPT !.country_works_count = CountryFilter(r.works_all, r.selected_country),
              !.country_patents_count = CountryFilter(r.patents, r.selected_country)]

\* Lines 198-216: scatterplot parameters, publications.  Raising a str is a
\* TypeError in Python 3.
AggSuffix(agg) ==
    CASE agg = "total" -> ""
      [] agg = "per capita" -> "_pc"
      [] agg = "sophistication (expy)" -> "_expy_count"

\* log_oa never switched off.
AggLogAlways(agg) == TRUE

AggLog(agg) == agg # "sophistication (expy)"

ScatterColOa(r, s) ==
    IF ~Running(r) THEN r ELSE
    IF s.selected_oa_citation_constraint \notin {"none", "at least 5"}
    THEN Raise(r, "TypeError", 204)
    ELSE LET base == IF s.selected_oa_citation_constraint = "none"
                     THEN s.selected_oa_metric
                     ELSE s.selected_oa_metric \o "_cited"
         IN  IF s.selected_oa_agg_input
                    \notin {"total", "per capita", "sophistication (expy)"}
             THEN Raise([r EXCEPT !.scatter_col_oa = base, !.log_oa = TRUE],
                        "TypeError", 216)
             ELSE [r EXCEPT !.scatter_col_oa = base \o AggSuffix(s.selected_oa_agg_input),
                            !.log_oa = AggLog(s.selected_oa_agg_input)]

\* Lines 218-229: scatterplot parameters, patents.
ScatterColPat(r, s) ==
    IF ~Running(r) THEN r ELSE
    IF s.selected_pat_agg_input \notin {"total", "per capita", "sophistication (expy)"}
    THEN Raise([r EXCEPT !.scatter_col_pat = "patent_count", !.log_pat = TRUE],
               "TypeError", 229)
    ELSE [r EXCEPT !.scatter_col_pat = "patent_count" \o AggSuffix(s.selected_pat_agg_input),
                   !.log_pat = AggLog(s.selected_pat_agg_input)]

\* The label written without the row mask.
AnnotateEveryRow(df, selected_country) ==
    AssignColumn(df, "selected_country", selected_country)

\* Lines 232-236: the text-label column, written into country_totals itself.
Annotate(df, selected_country) ==
    AssignWhere(AssignColumn(df, "selected_country", ""),
                "country_code", selected_country, "selected_country", selected_country)

AddAnnotation(r) ==
    IF ~Running(r) THEN r ELSE
    IF "country_code" \notin r.country_totals.columns
    THEN Raise([r EXCEPT !.country_totals =
                   AssignColumn(r.country_totals, "selected_country", "")],
               "AttributeError", 235)
    ELSE [r EXCEPT !.country_totals = Annotate(r.country_totals, r.selected_country)]

\* The scatter given the selected country's totals only.
ScatterDataOfCountry(r) ==
    FilterEq(r.country_totals, "country_code", r.selected_country)

\* Lines 238-283: both scatterplots, from country_totals.
ScatterData(r) == r.country_totals

ScatterOa(r) ==
    IF ~Running(r) THEN r ELSE
    IF ~ScatterColumnsOk(ScatterData(r), r.scatter_col_oa)
    THEN Raise(r, "ValueError", 239)
    ELSE [r EXCEPT !.scatter_oa = ScatterChart(ScatterData(r), r.scatter_col_oa, r.log_oa)]

ScatterPat(r) ==
    IF ~Running(r) THEN r ELSE
    IF ~ScatterColumnsOk(ScatterData(r), r.scatter_col_pat)
    THEN Raise(r, "ValueError", 263)
    ELSE [r EXCEPT !.scatter_pat = ScatterChart(ScatterData(r), r.scatter_col_pat, r.log_pat)]

\* Lines 292 and 296: st.plotly_chart for each.
ShowScatterOa(r) ==
    IF ~Running(r) THEN r ELSE [r EXCEPT !.displayed = @ \cup {"scatter_oa"}]

ShowScatterPat(r) ==
    IF ~Running(r) THEN r ELSE [r EXCEPT !.displayed = @ \cup {"scatter_pat"}]

\* Lines 302-311: the selected country's totals, read by .loc[mask, column]
\* and .iloc[0]: a column the table lacks raises KeyError, an empty
\* selection raises IndexError.
CountryTotalsOf(r) ==
    IF ~Running(r) THEN r ELSE
    IF "patent_count" \notin r.country_totals.columns
    THEN Raise(r, "KeyError", 303)
    ELSE IF FilterEq(r.country_totals, "country_code", r.selected_country).rows = <<>>
    THEN Raise(r, "IndexError", 305)
    ELSE IF "works" \notin r.country_totals.columns
    THEN Raise(r, "KeyError", 306)
    ELSE IF "citations" \notin r.country_totals.columns
    THEN Raise(r, "KeyError", 309)
    ELSE r

\* Lines 324-347: column to plot and column to color by, publications.
TransformationSuffix(transformation) ==
    CASE transformation = "none" -> ""
      [] transformation = "rca" -> "_rca"

\* The prody column named without _count.
ColorColumnNoCount(base) == base \o "_prody"

\* Lines 343 and 406: the prody column of a base column.
ColorColumn(base) == base \o "_prody_count"

CitedSuffix(constraint) ==
    CASE constraint = "none" -> ""
      [] constraint = "at least 5" -> "_cited"

PlotColOa(r, s) ==
    IF ~Running(r) THEN r ELSE
    IF s.selected_oa_citation_constraint \notin {"none", "at least 5"}
    THEN Raise(r, "ValueError", 330)
    ELSE LET constrained == s.selected_oa_metric
                                \o CitedSuffix(s.selected_oa_citation_constraint)
             r1 == [r EXCEPT !.plot_col_oa_constraint = constrained]
         IN  IF s.selected_oa_transformations \notin {"none", "rca"}
             THEN Raise(r1, "ValueError", 339)
             ELSE LET r2 == [r1 EXCEPT !.plot_col_oa = constrained
                                \o TransformationSuffix(s.selected_oa_transformations)]
                  IN  IF s.selected_oa_color_parameter = "concept sophistication (prody)"
                      THEN [r2 EXCEPT !.color_col_oa = ColorColumn(constrained)]
                      ELSE IF s.selected_oa_color_parameter = "broad concept"
                      THEN [r2 EXCEPT !.color_col_oa = None]
                      ELSE Raise(r2, "ValueError", 347)

\* The filter written with >= 0.
TreemapRowsNonNegative(df, col) ==
    Table(df.columns, SelectSeq(df.rows, LAMBDA row : row[col] >= 0))

\* df[df[col] > 0], the rows handed to px.treemap.
TreemapRows(df, col) == FilterPositive(df, col)

\* Lines 358-383: the publications treemap.
FigOa(r, s) ==
    IF ~Running(r) THEN r ELSE
    LET prody == s.selected_oa_color_parameter = "concept sophistication (prody)"
    IN  IF prody /\ r.color_col_oa \notin DOMAIN publications_prody_color_range
        THEN Raise(r, "KeyError", 363)
        ELSE LET color == IF prody THEN r.color_col_oa ELSE None
                 scale == IF prody THEN "Inferno" ELSE None
                 range == IF prody THEN publications_prody_color_range[r.color_col_oa]
                          ELSE NoRange
                 r1 == [r EXCEPT !.fig_oa_range_color = range]
                 path == <<"broad_concept_name", "concept_name">>
             IN  IF r.plot_col_oa \notin r.country_works_count.columns
                 THEN Raise(r1, "KeyError", 372)
                 ELSE IF ~TreemapColumnsOk(r.country_works_count, path, r.plot_col_oa,
                                           {"concept_name"}, color)
                 THEN Raise(r1, "ValueError", 371)
                 ELSE [r1 EXCEPT !.fig_oa =
                          TreemapChart(TreemapRows(r.country_works_count, r.plot_col_oa),
                                       path, r.plot_col_oa, "concept_name",
                                       color, scale, range)]

\* Line 383: st.plotly_chart(fig_oa).
ShowFigOa(r) ==
    IF ~Running(r) THEN r ELSE [r EXCEPT !.displayed = @ \cup {"fig_oa"}]

\* Lines 393-410: column to plot and column to color by, patents.
PlotColPat(r, s) ==
    IF ~Running(r) THEN r ELSE
    IF s.selected_pat_transformations \notin {"none", "rca"}
    THEN Raise(r, "ValueError", 402)
    ELSE LET r1 == [r EXCEPT !.plot_col_pat = "patent_count"
                        \o TransformationSuffix(s.selected_pat_transformations)]
         IN  IF s.selected_pat_color_parameter = "subclass sophistication (prody)"
             THEN [r1 EXCEPT !.color_col_pat = ColorColumn("patent_count")]
             ELSE IF s.selected_pat_color_parameter = "patent class"
             THEN [r1 EXCEPT !.color_col_pat = None]
             ELSE Raise(r1, "ValueError", 410)

\* Lines 422-451: the patents treemap.
FigPat(r, s) ==
    IF ~Running(r) THEN r ELSE
    LET prody == s.selected_pat_color_parameter = "subclass sophistication (prody)"
    IN  IF prody /\ r.color_col_pat \notin DOMAIN patents_prody_color_range
        THEN Raise(r, "KeyError", 427)
        ELSE LET color == IF prody THEN r.color_col_pat ELSE None
                 scale == IF prody THEN "Inferno" ELSE None
                 range == IF prody THEN patents_prody_color_range[r.color_col_pat]
                          ELSE NoRange
                 r1 == [r EXCEPT !.fig_pat_range_color = range]
                 path == <<"section_name", "subclass_name">>
             IN  IF r.plot_col_pat \notin r.country_patents_count.columns
                 THEN Raise(r1, "KeyError", 436)
                 ELSE IF ~TreemapColumnsOk(r.country_patents_count, path, r.plot_col_pat,
                            {"subclass_name", "subclass_code", "section_name"}, color)
                 THEN Raise(r1, "ValueError", 435)
                 ELSE [r1 EXCEPT !.fig_pat =
                          TreemapChart(TreemapRows(r.country_patents_count, r.plot_col_pat),
                                       path, r.plot_col_pat, "subclass_name",
                                       color, scale, range)]

\* Line 451: st.plotly_chart(fig_pat).
ShowFigPat(r) ==
    IF ~Running(r) THEN r ELSE [r EXCEPT !.displayed = @ \cup {"fig_pat"}]

\* Line 464: the script ends.
Finish(r) == IF ~Running(r) THEN r ELSE [r EXCEPT !.status = "ok"]

\* Lines 105-283: the selection resolved and both scatters built.
Scatters(r, s) ==
    ScatterPat(
    ScatterOa(
    AddAnnotation(
    ScatterColPat(
    ScatterColOa(
    FilterToCountry(r), s), s))))

\* Lines 93-464, given the tables read_data() returned.
Script(data, s) ==
    Finish(
    ShowFigPat(
    FigPat(
    PlotColPat(
    ShowFigOa(
    FigOa(
    PlotColOa(
    CountryTotalsOf(
    ShowScatterPat(
    ShowScatterOa(
    Scatters(
    SelectedCountry(
    ReadOptions(NewRun(data)), s), s)))), s), s)), s), s)))

\* The ways lines 93-464 can end: run to the end (or to the line that
\* raises), or stopped by a rerun request at one of the st.* calls, with
\* what the lines before that call have assigned and shown.
Outcomes(data, s) ==
    LET p93 == ReadOptions(NewRun(data))
        p105 == SelectedCountry(p93, s)
        p287 == Scatters(p105, s)
        p295 == ShowScatterOa(p287)
        p317 == CountryTotalsOf(ShowScatterPat(p295))
        p383 == FigOa(PlotColOa(p317, s), s)
        p389 == ShowFigOa(p383)
        p451 == FigPat(PlotColPat(p389, s), s)
        p455 == ShowFigPat(p451)
        At(line) == CASE line = 93 -> p93
                      [] line \in 105..169 -> p105
                      [] line \in 287..292 -> p287
                      [] line \in 295..296 -> p295
                      [] line \in 317..320 -> p317
                      [] line = 383 -> p383
                      [] line \in 389..391 -> p389
                      [] line = 451 -> p451
                      [] line = 455 -> p455
    IN  {Finish(p455)}
           \cup {Stopped(At(line), line) : line \in {l \in YieldPoints : l > 85}}

(***************************************************************************)
(* read_data() under st.cache_data(ttl=600): one entry, keyed by the       *)
(* function alone (it takes no argument).  An entry is reused while its    *)
(* age is below ttl; each call returns its own copy of the cached tables.  *)
(* On a miss the function runs and the entry is stamped when it is         *)
(* written.                                                                *)
(***************************************************************************)
\* The entry names the bucket content it was filled from.
NoEntry == [present |-> FALSE, at |-> 0, data |-> 0]

\* The tables an entry holds.
Cached(entry) == IF entry.present THEN Bucket[entry.data] ELSE NoData

CacheFresh(entry, now) == entry.present /\ now - entry.at < ttl

\* Line 82: prepare_gcsfs() found no usable secret, before any widget.
FailedSecrets == Raise(NewRun(NoData), "KeyError", 82)

\* Line 85: read_data() could not read the bucket.
FailedFetch == Raise(NewRun(NoData), "DataUnavailable", 85)

\* A run on its way: started (before line 82), or inside read_data() at
\* line 85 waiting for the bucket.
Started == [NewRun(NoData) EXCEPT !.line = 82]

InFlight == [NewRun(NoData) EXCEPT !.line = 85]

\* The sidebar widgets in script order: the control each one sets and the
\* lines of its call.
Widgets ==
    <<[field |-> "selected_country_name", first |-> 93, last |-> 96],
      [field |-> "selected_oa_metric", first |-> 108, last |-> 110],
      [field |-> "selected_oa_citation_constraint", first |-> 113, last |-> 117],
      [field |-> "selected_oa_agg_input", first |-> 120, last |-> 125],
      [field |-> "selected_oa_transformations", first |-> 128, last |-> 136],
      [field |-> "selected_oa_color_parameter", first |-> 139, last |-> 144],
      [field |-> "selected_pat_agg_input", first |-> 153, last |-> 158],
      [field |-> "selected_pat_transformations", first |-> 161, last |-> 166],
      [field |-> "selected_pat_color_parameter", first |-> 169, last |-> 174]>>

\* The page before the first run: no widget.
NoSidebar == [widgets |-> 0, options |-> {}]

\* How many of the widgets run r has put on the page.
WidgetsShown(r) ==
    IF r.status = "ok" THEN Len(Widgets)
    ELSE Cardinality({i \in 1..Len(Widgets) : Widgets[i].last < r.line})

\* The sidebar after run r: the first `widgets` widgets of the script are on
\* the page, the selectbox offering `options`.  A run that ends, by its last
\* line or by an exception, leaves what it has shown; a run stopped for a
\* rerun leaves the widgets of the run before in place where it has not
\* replaced them; a run still going has changed nothing yet.
SidebarAfter(r) ==
    LET n == WidgetsShown(r)
        options == CountryOptions(r.country_codes)
    IN  IF r.status = "running" THEN sidebar
        ELSE IF r.status = "RerunException"
        THEN [widgets |-> IF n > sidebar.widgets THEN n ELSE sidebar.widgets,
              options |-> IF n > 0 THEN options ELSE sidebar.options]
        ELSE [widgets |-> n, options |-> IF n > 0 THEN options ELSE {}]

\* Lines 93-464 run on `data`.
Render(data, s) ==
    \E r \in Outcomes(data, s) :
       /\ run' = r
       /\ sidebar' = SidebarAfter(r)

(***************************************************************************)
(* A script run starts, with the widgets at s.  The script thread of the   *)
(* run before has ended or is stopped at its next yield point.             *)
(***************************************************************************)
RunScript(s) ==
    /\ pc = "idle"
    /\ sel' = s
    /\ run' = Started
    /\ pc' = "started"
    /\ UNCHANGED <<clock, remote, cache, sidebar>>

\* Lines 16-85: the page set up and the intro written (a rerun request
\* stops the run there), prepare_gcsfs(), then read_data() looks in the
\* cache; on a hit the rest of the script runs on a copy of the cached
\* tables.
Lookup ==
    /\ pc = "started"
    /\ UNCHANGED <<clock, remote, cache, sel>>
    /\ \/ /\ \E line \in {l \in YieldPoints : l < 82} :
                /\ run' = Stopped(Started, line)
                /\ sidebar' = SidebarAfter(Stopped(Started, line))
          /\ pc' = "idle"
       \/ /\ run' = FailedSecrets
          /\ sidebar' = SidebarAfter(FailedSecrets)
          /\ pc' = "idle"
       \/ /\ CacheFresh(cache, clock)
          /\ Render(Cached(cache), sel)
          /\ pc' = "idle"
       \/ /\ ~CacheFresh(cache, clock)
          /\ run' = InFlight
          /\ sidebar' = sidebar
          /\ pc' = "fetching"

\* Lines 50-61: the bucket answered, or did not.  The entry is written at
\* the time of the answer and the run goes on.
FetchDone ==
    /\ pc = "fetching"
    /\ pc' = "idle"
    /\ UNCHANGED <<clock, remote, sel>>
    /\ \/ /\ cache' = [present |-> TRUE, at |-> clock, data |-> remote]
          /\ Render(Bucket[remote], sel)
       \/ /\ cache' = cache
          /\ run' = FailedFetch
          /\ sidebar' = SidebarAfter(FailedFetch)

DefaultSelection ==
    [selected_country_name |-> Countries[1].country_name,
     selected_oa_metric |-> "works",
     selected_oa_citation_constraint |-> "none",
     selected_oa_agg_input |-> "per capita",
     selected_oa_transformations |-> "none",
     selected_oa_color_parameter |-> "broad concept",
     selected_pat_agg_input |-> "per capita",
     selected_pat_transformations |-> "none",
     selected_pat_color_parameter |-> "patent class"]

Init ==
    /\ clock = 0
    /\ cache = NoEntry
    /\ remote \in Datasets
    /\ sel = DefaultSelection
    /\ run = [NewRun(NoData) EXCEPT !.status = "not run"]
    /\ pc = "idle"
    /\ sidebar = NoSidebar

\* The page is (re)loaded: the script runs with the widgets as they are.
Rerun == RunScript(sel)

\* A widget on the page is set to another of its values; the script reruns.
Select(field, value) ==
    /\ \E i \in 1..sidebar.widgets : Widgets[i].field = field
    /\ sel[field] # value
    /\ RunScript([sel EXCEPT ![field] = value])

\* The selectbox on the page is set to another of the countries it offers.
SelectCountry ==
    \E v \in sidebar.options : Select("selected_country_name", v)

SelectOaMetric(options) == \E v \in options : Select("selected_oa_metric", v)

SelectOaCitationConstraint(options) ==
    \E v \in options : Select("selected_oa_citation_constraint", v)

SelectOaAgg(options) == \E v \in options : Select("selected_oa_agg_input", v)

SelectOaTransformations(options) ==
    \E v \in options : Select("selected_oa_transformations", v)

SelectOaColor(options) == \E v \in options : Select("selected_oa_color_parameter", v)

SelectPatAgg(options) == \E v \in options : Select("selected_pat_agg_input", v)

SelectPatTransformations(options) ==
    \E v \in options : Select("selected_pat_transformations", v)

SelectPatColor(options) == \E v \in options : Select("selected_pat_color_parameter", v)

\* Time passes.
Tick ==
    /\ clock + TickStep <= MaxClock
    /\ clock' = clock + TickStep
    /\ UNCHANGED <<cache, remote, sel, run, pc, sidebar>>

\* The program: every widget holds one of its options.
Next ==
    \/ Rerun
    \/ SelectCountry
    \/ SelectOaMetric(OaMetricOptions)
    \/ SelectOaCitationConstraint(OaCitationConstraintOptions)
    \/ SelectOaAgg(AggOptions)
    \/ SelectOaTransformations(TransformationOptions)
    \/ SelectOaColor(OaColorOptions)
    \/ SelectPatAgg(AggOptions)
    \/ SelectPatTransformations(TransformationOptions)
    \/ SelectPatColor(PatColorOptions)
    \/ Lookup
    \/ FetchDone
    \/ Tick

Spec == Init /\ [][Next]_vars

\* The resolver fed values from outside the option lists as well, for one
\* country and one dataset.
NextAny ==
    \/ Rerun
    \/ Lookup
    \/ FetchDone
    \/ SelectOaMetric(OaMetricOptions \cup {ForeignMetric})
    \/ SelectOaCitationConstraint(OaCitationConstraintOptions \cup {ForeignConstraint})
    \/ SelectOaAgg(AggOptions \cup {ForeignAgg})
    \/ SelectOaTransformations(TransformationOptions \cup {ForeignTransformation})
    \/ SelectOaColor(OaColorOptions \cup {ForeignColor})
    \/ SelectPatAgg(AggOptions \cup {ForeignAgg})
    \/ SelectPatTransformations(TransformationOptions \cup {ForeignTransformation})
    \/ SelectPatColor(PatColorOptions \cup {ForeignColor})

InitAny == Init /\ remote = 1

SpecAny == InitAny /\ [][NextAny]_vars

(***************************************************************************)
(* Properties.                                                             *)
(***************************************************************************)
\* The last run executed past line n of the script.
Passed(n) ==
    \/ run.status = "ok"
    \/ run.status \notin {"not run", "running", "ok"} /\ run.line > n

\* The code of the country picked in the sidebar.
CodeOf(name) == IF name = "Brazil" THEN "BRA" ELSE "ABW"

\* The column names the upstream tables use, written out.
NamedBase(metric, constraint) ==
    CASE metric = "works" /\ constraint = "none" -> "works"
      [] metric = "works" /\ constraint = "at least 5" -> "works_cited"
      [] metric = "citations" /\ constraint = "none" -> "citations"
      [] metric = "citations" /\ constraint = "at least 5" -> "citations_cited"

NamedPlotCol(base, transformation) ==
    CASE transformation = "none" -> base
      [] transformation = "rca" -> base \o "_rca"
      [] transformation = "market share" -> base \o "_market_share"

NamedScatterCol(base, agg) ==
    CASE agg = "per capita" -> base \o "_pc"
      [] agg = "total" -> base
      [] agg = "sophistication (expy)" -> base \o "_expy_count"

OaNamesValid ==
    /\ sel.selected_oa_metric \in OaMetricOptions
    /\ sel.selected_oa_citation_constraint \in OaCitationConstraintOptions

\* The transformations a Selection may hold according to the specification
\* (4.2, step 3).
SpecTransformations == {"none", "rca", "market share"}

C2_ScatterColumn ==
    /\ Passed(229) =>
          /\ run.scatter_col_oa =
                NamedScatterCol(NamedBase(sel.selected_oa_metric,
                                          sel.selected_oa_citation_constraint),
                                sel.selected_oa_agg_input)
          /\ run.log_oa = (sel.selected_oa_agg_input # "sophistication (expy)")
          /\ run.scatter_col_pat =
                NamedScatterCol("patent_count", sel.selected_pat_agg_input)
          /\ run.log_pat = (sel.selected_pat_agg_input # "sophistication (expy)")
          /\ (/\ sel.selected_oa_metric = "works"
              /\ sel.selected_oa_citation_constraint = "none"
              /\ sel.selected_oa_agg_input = "per capita")
                => run.scatter_col_oa = "works_pc" /\ run.log_oa
    /\ Passed(283) =>
          /\ run.scatter_oa.built /\ run.scatter_pat.built
          /\ run.scatter_oa.y = run.scatter_col_oa
          /\ run.scatter_oa.log_y = run.log_oa
          /\ run.scatter_oa.x = "gdppc" /\ run.scatter_oa.log_x
          /\ run.scatter_pat.y = run.scatter_col_pat
          /\ run.scatter_pat.log_y = run.log_pat
          /\ run.scatter_pat.x = "gdppc" /\ run.scatter_pat.log_x

\* C2 witness: a sophistication scatter, linear in y, beside a per capita one.
C2_Witness ==
    /\ run.status = "ok"
    /\ sel.selected_oa_agg_input = "sophistication (expy)"
    /\ run.scatter_oa.y = "citations_cited_expy_count"
    /\ ~run.scatter_oa.log_y /\ run.scatter_oa.log_x
    /\ run.scatter_pat.y = "patent_count_pc" /\ run.scatter_pat.log_y

\* The fixed ranges, written out.
NamedRange(column) ==
    CASE column = "works_prody_count" -> <<1802053, 3557204>>
      [] column = "citations_prody_count" -> <<2048144, 3834445>>
      [] column = "works_cited_prody_count" -> <<1880398, 3549267>>
      [] column = "citations_cited_prody_count" -> <<2000289, 3810341>>
      [] column = "patent_count_prody_count" -> <<2041218, 4635550>>

\* C3: with the prody color mode the color column is the metric with its
\* citation constraint plus _prody_count (patent_count_prody_count for
\* patents) whatever the transformation, the range table has that key and
\* the treemap gets its fixed range; with the categorical mode the color
\* column, the continuous scale and the range are all absent.
C3_ColorColumn ==
    /\ ~(run.status = "KeyError" /\ run.line > 85)
    /\ Passed(347) =>
          IF sel.selected_oa_color_parameter = "concept sophistication (prody)"
          THEN /\ run.color_col_oa =
                     NamedBase(sel.selected_oa_metric,
                               sel.selected_oa_citation_constraint) \o "_prody_count"
               /\ run.color_col_oa \in DOMAIN publications_prody_color_range
          ELSE run.color_col_oa = None
    /\ Passed(383) =>
          /\ run.fig_oa.built
          /\ IF sel.selected_oa_color_parameter = "concept sophistication (prody)"
             THEN /\ run.fig_oa.color = run.color_col_oa
                  /\ run.fig_oa.color_continuous_scale = "Inferno"
                  /\ run.fig_oa.range_color = NamedRange(run.color_col_oa)
             ELSE /\ run.fig_oa.color = None
                  /\ run.fig_oa.color_continuous_scale = None
                  /\ run.fig_oa.range_color = NoRange
    /\ Passed(410) =>
          IF sel.selected_pat_color_parameter = "subclass sophistication (prody)"
          THEN run.color_col_pat = "patent_count_prody_count"
          ELSE run.color_col_pat = None
    /\ run.status = "ok" =>
          /\ run.fig_pat.built
          /\ IF sel.selected_pat_color_parameter = "subclass sophistication (prody)"
             THEN /\ run.fig_pat.color = "patent_count_prody_count"
                  /\ run.fig_pat.color_continuous_scale = "Inferno"
                  /\ run.fig_pat.range_color = <<2041218, 4635550>>
             ELSE /\ run.fig_pat.color = None
                  /\ run.fig_pat.color_continuous_scale = None
                  /\ run.fig_pat.range_color = NoRange

\* C3 witness: prody coloring of an rca treemap of cited works, and of the
\* patents treemap.
C3_Witness ==
    /\ run.status = "ok"
    /\ sel.selected_oa_transformations = "rca"
    /\ run.fig_oa.values = "works_cited_rca"
    /\ run.fig_oa.color = "works_cited_prody_count"
    /\ run.fig_oa.range_color = <<1880398, 3549267>>
    /\ run.fig_pat.color = "patent_count_prody_count"
    /\ run.fig_pat.range_color = <<2041218, 4635550>>

ForeignSelected ==
    \/ sel.selected_oa_metric \notin OaMetricOptions
    \/ sel.selected_oa_citation_constraint \notin OaCitationConstraintOptions
    \/ sel.selected_oa_agg_input \notin AggOptions
    \/ sel.selected_oa_transformations \notin TransformationOptions
    \/ sel.selected_oa_color_parameter \notin OaColorOptions
    \/ sel.selected_pat_agg_input \notin AggOptions
    \/ sel.selected_pat_transformations \notin TransformationOptions
    \/ sel.selected_pat_color_parameter \notin PatColorOptions

\* C4 as stated: a control holding a value outside its option list makes the
\* run end in an error, no column name is derived from that value and no
\* chart is built with it.
C4_Rejected ==
    (Passed(174) /\ ForeignSelected) =>
       /\ run.status # "ok"
       /\ (\/ sel.selected_oa_metric \notin OaMetricOptions
           \/ sel.selected_oa_citation_constraint \notin OaCitationConstraintOptions)
             => /\ run.scatter_col_oa = Unset
                /\ run.plot_col_oa_constraint = Unset
                /\ run.plot_col_oa = Unset
                /\ run.color_col_oa = Unset
                /\ ~run.scatter_oa.built /\ ~run.fig_oa.built
       /\ sel.selected_oa_agg_input \notin AggOptions => ~run.scatter_oa.built
       /\ sel.selected_pat_agg_input \notin AggOptions => ~run.scatter_pat.built
       /\ (\/ sel.selected_oa_transformations \notin TransformationOptions
           \/ sel.selected_oa_color_parameter \notin OaColorOptions)
             => ~run.fig_oa.built
       /\ (\/ sel.selected_pat_transformations \notin TransformationOptions
           \/ sel.selected_pat_color_parameter \notin PatColorOptions)
             => ~run.fig_pat.built

Rows(df) == {df.rows[i] : i \in 1..Len(df.rows)}

RowsOf(rows) == {rows[i] : i \in 1..Len(rows)}

\* C5: after every run the text-label column of the totals table is the
\* country code on the row of the selected country and the empty string on
\* every other row, whatever was selected before; the scatters show it.
C5_Labels ==
    Passed(236) =>
       /\ \A row \in Rows(run.country_totals) :
             row["selected_country"] =
                IF row["country_code"] = CodeOf(sel.selected_country_name)
                THEN CodeOf(sel.selected_country_name) ELSE ""
       /\ Passed(283) =>
             /\ run.scatter_oa.text = "selected_country"
             /\ run.scatter_pat.text = "selected_country"
             /\ \A row \in RowsOf(run.scatter_oa.data_frame)
                           \cup RowsOf(run.scatter_pat.data_frame) :
                   row["selected_country"] =
                      IF row["country_code"] = CodeOf(sel.selected_country_name)
                      THEN CodeOf(sel.selected_country_name) ELSE ""

\* C5 witness: the selection moved from Brazil to Aruba; Aruba's point is
\* labelled and Brazil's is blank.
C5_Witness ==
    /\ run.status = "ok"
    /\ sel.selected_country_name = "Aruba"
    /\ \E row \in RowsOf(run.scatter_oa.data_frame) :
          row["country_code"] = "ABW" /\ row["selected_country"] = "ABW"
    /\ \E row \in RowsOf(run.scatter_oa.data_frame) :
          row["country_code"] = "BRA" /\ row["selected_country"] = ""

ColumnOf(rows, col) == [i \in 1..Len(rows) |-> rows[i][col]]

\* C6: the rows of each treemap are exactly the selected country's rows of
\* the fetched table whose value column is strictly positive, each once.
C6_PositiveRows ==
    /\ run.fig_oa.built =>
          LET col == NamedPlotCol(NamedBase(sel.selected_oa_metric,
                                            sel.selected_oa_citation_constraint),
                                  sel.selected_oa_transformations)
              kept == {row \in Rows(Cached(cache).works_all) :
                          /\ row["country_code"] = CodeOf(sel.selected_country_name)
                          /\ row[col] > 0}
          IN  /\ run.fig_oa.values = col
              /\ RowsOf(run.fig_oa.data_frame) = kept
              /\ Len(run.fig_oa.data_frame) = Cardinality(kept)
    /\ run.fig_pat.built =>
          LET col == NamedPlotCol("patent_count", sel.selected_pat_transformations)
              kept == {row \in Rows(Cached(cache).patents) :
                          /\ row["country_code"] = CodeOf(sel.selected_country_name)
                          /\ row[col] > 0}
          IN  /\ run.fig_pat.values = col
              /\ RowsOf(run.fig_pat.data_frame) = kept
              /\ Len(run.fig_pat.data_frame) = Cardinality(kept)

\* C6 witness: the country's rows hold 5, 0, -3, 10 in the value column and
\* the treemap gets the rows holding 5 and 10.
C6_Witness ==
    /\ run.fig_oa.built
    /\ ColumnOf(run.country_works_count.rows, run.fig_oa.values) = <<5, 0, -3, 10>>
    /\ ColumnOf(run.fig_oa.data_frame, run.fig_oa.values) = <<5, 10>>

HasNoRows(df) ==
    \A row \in Rows(df) : row["country_code"] # CodeOf(sel.selected_country_name)

\* C7 as stated: a country code matching no row filters to an empty table,
\* and a run for a country with no rows in some table raises nothing and,
\* unless a rerun request stops it, completes with all four charts built.
C7_EmptyTolerated ==
    /\ (Passed(192) /\ HasNoRows(Cached(cache).works_all))
          => run.country_works_count.rows = <<>>
    /\ (Passed(192) /\ HasNoRows(Cached(cache).patents))
          => run.country_patents_count.rows = <<>>
    /\ (/\ Passed(85)
        /\ \/ HasNoRows(Cached(cache).works_all)
           \/ HasNoRows(Cached(cache).patents)
           \/ HasNoRows(Cached(cache).country_totals))
          => /\ run.status \in {"ok", "RerunException"}
             /\ run.status = "ok" =>
                   /\ run.scatter_oa.built /\ run.scatter_pat.built
                   /\ run.fig_oa.built /\ run.fig_pat.built

\* C9 as stated: after a run every loaded table has the rows and columns it
\* had when fetched.
C9_TablesUntouched ==
    Passed(85) =>
       /\ run.works_all = Cached(cache).works_all
       /\ run.patents = Cached(cache).patents
       /\ run.country_codes = Cached(cache).country_codes
       /\ run.country_totals = Cached(cache).country_totals

\* C10: both scatterplots show one point per row of the totals table,
\* whichever country is selected; both treemaps hold rows of the selected
\* country only.
C10_Scopes ==
    /\ Passed(283) =>
          LET totals == Cached(cache).country_totals.rows
          IN  /\ Len(run.scatter_oa.data_frame) = Len(totals)
              /\ Len(run.scatter_pat.data_frame) = Len(totals)
              /\ CodesOf(run.scatter_oa.data_frame) = CodesOf(totals)
              /\ CodesOf(run.scatter_pat.data_frame) = CodesOf(totals)
    /\ run.fig_oa.built =>
          CodesOf(run.fig_oa.data_frame) \subseteq {CodeOf(sel.selected_country_name)}
    /\ run.fig_pat.built =>
          CodesOf(run.fig_pat.data_frame) \subseteq {CodeOf(sel.selected_country_name)}

\* C10 witness: Aruba selected; the scatter holds Brazil and Aruba, the
\* patents treemap holds rows of Aruba alone.
C10_Witness ==
    /\ run.status = "ok"
    /\ sel.selected_country_name = "Aruba"
    /\ CodesOf(run.scatter_oa.data_frame) = {"BRA", "ABW"}
    /\ CodesOf(run.scatter_pat.data_frame) = {"BRA", "ABW"}
    /\ CodesOf(run.fig_pat.data_frame) = {"ABW"}
    /\ CodesOf(run.patents.rows) = {"BRA", "ABW"}

====
